---- MODULE Spec2Model ----
(***************************************************************************)
(* Model of morph_gen.py: the heuristic noun decliner, the orthography and *)
(* casing normalisers, PairGenerator.generate and the collision-resolving  *)
(* loop of main.                                                           *)
(*                                                                         *)
(* Text is modelled as a sequence of Unicode code points, so that          *)
(* str.lower / str.upper, the ordering used by sort and the substring      *)
(* tests of the source are computed and not assumed.                       *)
(***************************************************************************)
EXTENDS Integers, Sequences, FiniteSets, TLC

VARIABLES
    pairs,                  \* main: the list loaded from the YAML file
    i,                      \* main: index of the next item of pairs (0-based)
    pc,                     \* main: "loop", "merge" or "done"
    replacements_prio_map,  \* main: key -> <<target, priority>>
    replacements_flat,      \* main: key -> target, written after the loop
    results,                \* main: the detailed records appended so far
    forms,                  \* main: res['forms'] rows still to be merged
    target_cache,           \* PairGenerator._target_cache
    parse_calls,            \* history: target lemmas handed to morph.parse by matching
    log,                    \* history: how generate resolved each form of the current pair
    gen,                    \* the last generate call: its arguments, lexeme and outcome
    offered,             \* history: the seeds and rows offered to the priority map, in order
    call                    \* the pure function applied and its arguments / result

vars == <<pairs, i, pc, replacements_prio_map, replacements_flat, results,
          forms, target_cache, parse_calls, log, gen, offered, call>>

----------------------------------------------------------------------------
(* Bounds of the model.                                                    *)

MaxStemLen == 2
MaxPairs == 2
MaxSrcParses == 2
MaxTgtParses == 1
MaxTextLen == 3

----------------------------------------------------------------------------
(* Text helpers (Python str semantics on code-point sequences).            *)

\* Cyrillic lower-case letters by transliterated name.
cyr ==
    [ a |-> 1072, b |-> 1073, v |-> 1074, g |-> 1075, d |-> 1076, e |-> 1077,
      zh |-> 1078, z |-> 1079, i |-> 1080, j |-> 1081, k |-> 1082, l |-> 1083,
      m |-> 1084, n |-> 1085, o |-> 1086, p |-> 1087, r |-> 1088, s |-> 1089,
      t |-> 1090, u |-> 1091, f |-> 1092, h |-> 1093, c |-> 1094, ch |-> 1095,
      sh |-> 1096, sch |-> 1097, hard |-> 1098, y |-> 1099, soft |-> 1100, eh |-> 1101,
      yu |-> 1102, ya |-> 1103, yo |-> 1105 ]

\* The value None where a text is expected, and the exception of decline.
None == <<-1>>
RuntimeError == <<-2>>

Range(s) == {s[n] : n \in DOMAIN s}

\* F applied to the value of e, which is computed once (a definition used
\* several times is otherwise computed at each use).
With(e, F(_)) == CHOOSE r \in {F(x) : x \in {e}} : TRUE

Last(s) == s[Len(s)]

endswith(word, suffix) ==
    /\ Len(suffix) <= Len(word)
    /\ SubSeq(word, Len(word) - Len(suffix) + 1, Len(word)) = suffix

endswith_any(word, suffixes) == \E suffix \in suffixes : endswith(word, suffix)

\* word[:-n]
DropLast(word, n) == SubSeq(word, 1, Len(word) - n)

----------------------------------------------------------------------------
(* Module-level tables.                                                    *)

HUSH == {cyr.g, cyr.k, cyr.h, cyr.zh, cyr.ch, cyr.sh, cyr.sch}

SCHEMAS ==
    [ masc_cons |->
        [ sing |-> [nomn |-> <<>>, gent |-> <<cyr.a>>, datv |-> <<cyr.u>>, accs |-> None, ablt |-> <<cyr.o, cyr.m>>, loct |-> <<cyr.e>>],
          plur |-> [nomn |-> <<cyr.y>>, gent |-> <<cyr.o, cyr.v>>, datv |-> <<cyr.a, cyr.m>>, accs |-> None, ablt |-> <<cyr.a, cyr.m, cyr.i>>, loct |-> <<cyr.a, cyr.h>>] ],
      masc_fleeting_ok |->
        [ sing |-> [nomn |-> <<cyr.o, cyr.k>>, gent |-> <<cyr.k, cyr.a>>, datv |-> <<cyr.k, cyr.u>>, accs |-> None, ablt |-> <<cyr.k, cyr.o, cyr.m>>, loct |-> <<cyr.k, cyr.e>>],
          plur |-> [nomn |-> <<cyr.k, cyr.i>>, gent |-> <<cyr.k, cyr.o, cyr.v>>, datv |-> <<cyr.k, cyr.a, cyr.m>>, accs |-> None, ablt |-> <<cyr.k, cyr.a, cyr.m, cyr.i>>, loct |-> <<cyr.k, cyr.a, cyr.h>>] ],
      masc_fleeting_ol |->
        [ sing |-> [nomn |-> <<cyr.o, cyr.l>>, gent |-> <<cyr.l, cyr.a>>, datv |-> <<cyr.l, cyr.u>>, accs |-> None, ablt |-> <<cyr.l, cyr.o, cyr.m>>, loct |-> <<cyr.l, cyr.e>>],
          plur |-> [nomn |-> <<cyr.l, cyr.y>>, gent |-> <<cyr.l, cyr.o, cyr.v>>, datv |-> <<cyr.l, cyr.a, cyr.m>>, accs |-> None, ablt |-> <<cyr.l, cyr.a, cyr.m, cyr.i>>, loct |-> <<cyr.l, cyr.a, cyr.h>>] ],
      masc_y |->
        [ sing |-> [nomn |-> <<cyr.j>>, gent |-> <<cyr.ya>>, datv |-> <<cyr.yu>>, accs |-> None, ablt |-> <<cyr.e, cyr.m>>, loct |-> <<cyr.e>>],
          plur |-> [nomn |-> <<cyr.i>>, gent |-> <<cyr.e, cyr.v>>, datv |-> <<cyr.ya, cyr.m>>, accs |-> None, ablt |-> <<cyr.ya, cyr.m, cyr.i>>, loct |-> <<cyr.ya, cyr.h>>] ],
      masc_soft |->
        [ sing |-> [nomn |-> <<cyr.soft>>, gent |-> <<cyr.ya>>, datv |-> <<cyr.yu>>, accs |-> None, ablt |-> <<cyr.e, cyr.m>>, loct |-> <<cyr.e>>],
          plur |-> [nomn |-> <<cyr.i>>, gent |-> <<cyr.e, cyr.j>>, datv |-> <<cyr.ya, cyr.m>>, accs |-> None, ablt |-> <<cyr.ya, cyr.m, cyr.i>>, loct |-> <<cyr.ya, cyr.h>>] ],
      fem_a |->
        [ sing |-> [nomn |-> <<cyr.a>>, gent |-> <<cyr.y>>, datv |-> <<cyr.e>>, accs |-> <<cyr.u>>, ablt |-> <<cyr.o, cyr.j>>, loct |-> <<cyr.e>>],
          plur |-> [nomn |-> <<cyr.y>>, gent |-> <<>>, datv |-> <<cyr.a, cyr.m>>, accs |-> None, ablt |-> <<cyr.a, cyr.m, cyr.i>>, loct |-> <<cyr.a, cyr.h>>] ],
      fem_ya |->
        [ sing |-> [nomn |-> <<cyr.ya>>, gent |-> <<cyr.i>>, datv |-> <<cyr.e>>, accs |-> <<cyr.yu>>, ablt |-> <<cyr.e, cyr.j>>, loct |-> <<cyr.e>>],
          plur |-> [nomn |-> <<cyr.i>>, gent |-> <<cyr.soft>>, datv |-> <<cyr.ya, cyr.m>>, accs |-> None, ablt |-> <<cyr.ya, cyr.m, cyr.i>>, loct |-> <<cyr.ya, cyr.h>>] ],
      fem_ia |->
        [ sing |-> [nomn |-> <<cyr.i, cyr.ya>>, gent |-> <<cyr.i, cyr.i>>, datv |-> <<cyr.i, cyr.i>>, accs |-> <<cyr.i, cyr.yu>>, ablt |-> <<cyr.i, cyr.e, cyr.j>>, loct |-> <<cyr.i, cyr.i>>],
          plur |-> [nomn |-> <<cyr.i, cyr.i>>, gent |-> <<cyr.i, cyr.j>>, datv |-> <<cyr.i, cyr.ya, cyr.m>>, accs |-> None, ablt |-> <<cyr.i, cyr.ya, cyr.m, cyr.i>>, loct |-> <<cyr.i, cyr.ya, cyr.h>>] ],
      neut_o |->
        [ sing |-> [nomn |-> <<cyr.o>>, gent |-> <<cyr.a>>, datv |-> <<cyr.u>>, accs |-> <<cyr.o>>, ablt |-> <<cyr.o, cyr.m>>, loct |-> <<cyr.e>>],
          plur |-> [nomn |-> <<cyr.a>>, gent |-> <<>>, datv |-> <<cyr.a, cyr.m>>, accs |-> <<cyr.a>>, ablt |-> <<cyr.a, cyr.m, cyr.i>>, loct |-> <<cyr.a, cyr.h>>] ],
      neut_e |->
        [ sing |-> [nomn |-> <<cyr.e>>, gent |-> <<cyr.ya>>, datv |-> <<cyr.yu>>, accs |-> <<cyr.e>>, ablt |-> <<cyr.e, cyr.m>>, loct |-> <<cyr.e>>],
          plur |-> [nomn |-> <<cyr.ya>>, gent |-> <<cyr.e, cyr.j>>, datv |-> <<cyr.ya, cyr.m>>, accs |-> <<cyr.ya>>, ablt |-> <<cyr.ya, cyr.m, cyr.i>>, loct |-> <<cyr.ya, cyr.h>>] ],
      neut_ie |->
        [ sing |-> [nomn |-> <<cyr.i, cyr.e>>, gent |-> <<cyr.i, cyr.ya>>, datv |-> <<cyr.i, cyr.yu>>, accs |-> <<cyr.i, cyr.e>>, ablt |-> <<cyr.i, cyr.e, cyr.m>>, loct |-> <<cyr.i, cyr.i>>],
          plur |-> [nomn |-> <<cyr.i, cyr.ya>>, gent |-> <<cyr.i, cyr.j>>, datv |-> <<cyr.i, cyr.ya, cyr.m>>, accs |-> <<cyr.i, cyr.ya>>, ablt |-> <<cyr.i, cyr.ya, cyr.m, cyr.i>>, loct |-> <<cyr.i, cyr.ya, cyr.h>>] ],
      neut_mia |->
        [ sing |-> [nomn |-> <<cyr.m, cyr.ya>>, gent |-> <<cyr.m, cyr.e, cyr.n, cyr.i>>, datv |-> <<cyr.m, cyr.e, cyr.n, cyr.i>>, accs |-> <<cyr.m, cyr.ya>>, ablt |-> <<cyr.m, cyr.e, cyr.n, cyr.e, cyr.m>>, loct |-> <<cyr.m, cyr.e, cyr.n, cyr.i>>],
          plur |-> [nomn |-> <<cyr.m, cyr.e, cyr.n, cyr.a>>, gent |-> <<cyr.m, cyr.e, cyr.n>>, datv |-> <<cyr.m, cyr.e, cyr.n, cyr.a, cyr.m>>, accs |-> <<cyr.m, cyr.e, cyr.n, cyr.a>>, ablt |-> <<cyr.m, cyr.e, cyr.n, cyr.a, cyr.m, cyr.i>>, loct |-> <<cyr.m, cyr.e, cyr.n, cyr.a, cyr.h>>] ],
      fem_soft |->
        [ sing |-> [nomn |-> <<cyr.soft>>, gent |-> <<cyr.i>>, datv |-> <<cyr.i>>, accs |-> <<cyr.soft>>, ablt |-> <<cyr.soft, cyr.yu>>, loct |-> <<cyr.i>>],
          plur |-> [nomn |-> <<cyr.i>>, gent |-> <<cyr.e, cyr.j>>, datv |-> <<cyr.ya, cyr.m>>, accs |-> None, ablt |-> <<cyr.ya, cyr.m, cyr.i>>, loct |-> <<cyr.ya, cyr.h>>] ] ]

VOWELS == {cyr.a, cyr.ya, cyr.u, cyr.yu, cyr.i, cyr.y, cyr.e, cyr.yo, cyr.o, cyr.eh}

----------------------------------------------------------------------------
(* Morphological tags.  A tag holds the two grammeme lists that its text   *)
(* shows and the text itself: "NOUN,inan,femn sing,nomn" has               *)
(* lex = <<"NOUN","inan","femn">> and frm = <<"sing","nomn">>.  NoTag is   *)
(* decline's default src_tag=None; like a tag without grammemes it is      *)
(* falsy.                                                                  *)

NoTag == [lex |-> <<>>, frm |-> <<>>, text |-> <<>>]

grammemes(tag) == Range(tag.lex) \cup Range(tag.frm)

\* bool(src_tag)
Truthy(tag) == grammemes(tag) # {}

V_MARKERS == {"V-oy", "V-ey", "V-ieyu", "V-be"}

get_v_markers(tag) == grammemes(tag) \cap V_MARKERS

----------------------------------------------------------------------------
(* Orthography normaliser.                                                 *)

apply_orthography(stem, ending) ==
    IF ending = <<>> \/ stem = <<>>
    THEN stem \o ending
    ELSE IF ending[1] = cyr.y /\ Last(stem) \in HUSH
         THEN stem \o <<cyr.i>> \o Tail(ending)
         ELSE stem \o ending

----------------------------------------------------------------------------
(* Heuristic decliner.                                                     *)

classify(word) ==
    IF /\ endswith_any(word, {<<cyr.u>>, <<cyr.yu>>, <<cyr.eh>>, <<cyr.o>>, <<cyr.e>>, <<cyr.i>>})
       /\ \/ endswith_any(word, {<<cyr.u>>, <<cyr.eh>>})
          \/ endswith(word, <<cyr.i>>) /\ ~endswith(word, <<cyr.i, cyr.i>>)
    THEN <<"indeclinable", word>>
    ELSE IF endswith(word, <<cyr.i, cyr.ya>>) THEN <<"fem_ia", DropLast(word, 2)>>
    ELSE IF endswith(word, <<cyr.i, cyr.e>>) THEN <<"neut_ie", DropLast(word, 2)>>
    ELSE IF endswith(word, <<cyr.m, cyr.ya>>) THEN <<"neut_mia", DropLast(word, 2)>>
    ELSE IF Len(word) > 3 /\ endswith(word, <<cyr.o, cyr.k>>) /\ word[Len(word) - 2] \notin VOWELS
         THEN <<"masc_fleeting_ok", DropLast(word, 2)>>
    ELSE IF Len(word) > 3 /\ endswith(word, <<cyr.o, cyr.l>>) /\ word[Len(word) - 2] \notin VOWELS
         THEN <<"masc_fleeting_ol", DropLast(word, 2)>>
    ELSE IF Len(word) > 3 /\ endswith(word, <<cyr.e, cyr.c>>) /\ word[Len(word) - 2] \notin VOWELS
         THEN <<"masc_fleeting_ec", DropLast(word, 2)>>
    ELSE IF endswith(word, <<cyr.a>>) THEN <<"fem_a", DropLast(word, 1)>>
    ELSE IF endswith(word, <<cyr.ya>>) THEN <<"fem_ya", DropLast(word, 1)>>
    ELSE IF endswith(word, <<cyr.o>>) THEN <<"neut_o", DropLast(word, 1)>>
    ELSE IF endswith(word, <<cyr.e>>) THEN <<"neut_e", DropLast(word, 1)>>
    ELSE IF endswith(word, <<cyr.j>>) THEN <<"masc_y", DropLast(word, 1)>>
    ELSE IF endswith(word, <<cyr.soft>>)
         THEN LET stem == DropLast(word, 1)
              IN  IF stem # <<>> /\ Last(stem) \in {cyr.zh, cyr.sh, cyr.ch, cyr.sch}
                  THEN <<"fem_soft", stem>>
                  ELSE IF endswith_any(word, {<<cyr.o, cyr.s, cyr.t, cyr.soft>>,
                                              <<cyr.e, cyr.s, cyr.t, cyr.soft>>,
                                              <<cyr.z, cyr.n, cyr.soft>>,
                                              <<cyr.d, cyr.soft>>,
                                              <<cyr.v, cyr.a, cyr.t, cyr.soft>>})
                       THEN <<"fem_soft", stem>>
                       ELSE <<"masc_soft", stem>>
    ELSE <<"masc_cons", word>>

case_map(case) ==
    CASE case = "gen2" -> "gent"
      [] case = "loc2" -> "loct"
      [] case = "voct" -> "nomn"
      [] OTHER -> case

\* dict.get on a schema level: None when the key is absent.
schema_get(schema, case) ==
    IF case \in DOMAIN schema THEN schema[case] ELSE None

decline(lemma, case0, number, animate, src_tag) ==
    LET case == case_map(case0)
        decl_type == classify(lemma)[1]
        stem == classify(lemma)[2]
    IN  IF decl_type \notin DOMAIN SCHEMAS
        THEN IF decl_type = "indeclinable" THEN stem ELSE RuntimeError
        ELSE IF number \notin DOMAIN SCHEMAS[decl_type]
        THEN RuntimeError
        ELSE LET schema == SCHEMAS[decl_type][number]
                 e0 == schema_get(schema, case)
                 e1 == IF /\ decl_type = "fem_ya" /\ number = "plur" /\ case = "gent"
                          /\ Truthy(src_tag) /\ "masc" \in grammemes(src_tag)
                       THEN <<cyr.e, cyr.j>>
                       ELSE e0
                 e2 == IF case = "accs" /\ e1 = None
                       THEN schema[IF animate THEN "gent" ELSE "nomn"]
                       ELSE e1
                 vm == IF Truthy(src_tag) THEN get_v_markers(src_tag) ELSE {}
                 ending ==
                       IF case # "ablt" THEN e2
                       ELSE IF decl_type = "fem_a" /\ "V-oy" \in vm THEN <<cyr.o, cyr.yu>>
                       ELSE IF decl_type = "fem_ya" /\ "V-ey" \in vm THEN <<cyr.e, cyr.yu>>
                       ELSE IF decl_type = "fem_ia" /\ "V-ieyu" \in vm THEN <<cyr.i, cyr.e, cyr.yu>>
                       ELSE e2
             IN  IF ending = None THEN RuntimeError
                 ELSE apply_orthography(stem, ending)

----------------------------------------------------------------------------
(* Python str operations on code-point sequences.                          *)

UPPER_LETTERS == (65..90) \cup (1040..1071) \cup {1025}

LOWER_LETTERS == (97..122) \cup (1072..1103) \cup {1105}

WHITESPACE == {9, 10, 11, 12, 13, 32}

HYPHEN == <<45>>

COMMA == <<44>>

SPACE == <<32>>

lower_char(c) ==
    IF c = 1025 THEN 1105 ELSE IF c \in UPPER_LETTERS THEN c + 32 ELSE c

upper_char(c) ==
    IF c = 1105 THEN 1025 ELSE IF c \in LOWER_LETTERS THEN c - 32 ELSE c

lower(text) == [n \in DOMAIN text |-> lower_char(text[n])]

upper(text) == [n \in DOMAIN text |-> upper_char(text[n])]

\* str.isupper: at least one cased character and no lower-case one.
isupper(text) ==
    /\ \E n \in DOMAIN text : text[n] \in UPPER_LETTERS
    /\ \A n \in DOMAIN text : text[n] \notin LOWER_LETTERS

capitalize(text) ==
    [n \in DOMAIN text |-> IF n = 1 THEN upper_char(text[n]) ELSE lower_char(text[n])]

\* text.strip(): without the leading and the trailing whitespace.
strip(text) ==
    LET inked == {n \in DOMAIN text : text[n] \notin WHITESPACE}
    IN  IF inked = {} THEN <<>>
        ELSE SubSeq(text, CHOOSE n \in inked : \A m \in inked : n <= m,
                          CHOOSE n \in inked : \A m \in inked : m <= n)

\* text.split(sep) for a one-character separator: the list of parts.
RECURSIVE split(_, _)
split(text, sep) ==
    IF \A n \in DOMAIN text : text[n] # sep[1]
    THEN <<text>>
    ELSE LET at == CHOOSE n \in DOMAIN text :
                       text[n] = sep[1] /\ \A m \in 1..(n - 1) : text[m] # sep[1]
         IN  <<SubSeq(text, 1, at - 1)>> \o split(SubSeq(text, at + 1, Len(text)), sep)

\* sep.join(parts)
RECURSIVE join(_, _)
join(sep, parts) ==
    IF parts = <<>> THEN <<>>
    ELSE IF Len(parts) = 1 THEN parts[1]
    ELSE parts[1] \o sep \o join(sep, Tail(parts))

\* sub in text
contains(sub, text) ==
    \E n \in 1..(Len(text) - Len(sub) + 1) : SubSeq(text, n, n + Len(sub) - 1) = sub

\* a < b for texts: at the first difference the smaller code point, a
\* proper prefix first.
text_lt(a, b) ==
    \E k \in 1..Len(b) :
        /\ Len(a) >= k - 1
        /\ \A m \in 1..(k - 1) : a[m] = b[m]
        /\ (Len(a) = k - 1 \/ a[k] < b[k])

\* sorted(set_of_texts)
sorted(texts) ==
    With(texts, LAMBDA S :
        [n \in 1..Cardinality(S) |->
            CHOOSE a \in S : Cardinality({b \in S : text_lt(b, a)}) = n - 1])

----------------------------------------------------------------------------
(* Casing normaliser.                                                      *)

\* The normaliser as it would be with text.capitalize() in place of the
\* hyphen-wise capitalisation.
normalize_case_like_unsplit(reference, text) ==
    IF reference # <<>> /\ reference[1] \in UPPER_LETTERS
    THEN IF isupper(reference) /\ Len(reference) > 1
         THEN upper(text)
         ELSE capitalize(text)
    ELSE lower(text)

normalize_case_like(reference, text) ==
    IF reference # <<>> /\ reference[1] \in UPPER_LETTERS
    THEN IF isupper(reference) /\ Len(reference) > 1
         THEN upper(text)
         ELSE LET parts == split(text, HYPHEN)
              IN  join(HYPHEN, [n \in DOMAIN parts |-> capitalize(parts[n])])
    ELSE lower(text)

----------------------------------------------------------------------------
(* Tag text and form priority.                                             *)

\* The text of each grammeme, as str(tag) spells it.
GRAMMEME_TEXT ==
    "NOUN" :> <<78, 79, 85, 78>> @@
    "ADJF" :> <<65, 68, 74, 70>> @@
    "ADJS" :> <<65, 68, 74, 83>> @@
    "COMP" :> <<67, 79, 77, 80>> @@
    "VERB" :> <<86, 69, 82, 66>> @@
    "INFN" :> <<73, 78, 70, 78>> @@
    "NPRO" :> <<78, 80, 82, 79>> @@
    "NUMR" :> <<78, 85, 77, 82>> @@
    "PRTF" :> <<80, 82, 84, 70>> @@
    "PRTS" :> <<80, 82, 84, 83>> @@
    "GRND" :> <<71, 82, 78, 68>> @@
    "anim" :> <<97, 110, 105, 109>> @@
    "inan" :> <<105, 110, 97, 110>> @@
    "masc" :> <<109, 97, 115, 99>> @@
    "femn" :> <<102, 101, 109, 110>> @@
    "neut" :> <<110, 101, 117, 116>> @@
    "sing" :> <<115, 105, 110, 103>> @@
    "plur" :> <<112, 108, 117, 114>> @@
    "nomn" :> <<110, 111, 109, 110>> @@
    "gent" :> <<103, 101, 110, 116>> @@
    "datv" :> <<100, 97, 116, 118>> @@
    "accs" :> <<97, 99, 99, 115>> @@
    "ablt" :> <<97, 98, 108, 116>> @@
    "loct" :> <<108, 111, 99, 116>> @@
    "voct" :> <<118, 111, 99, 116>> @@
    "gen2" :> <<103, 101, 110, 50>> @@
    "loc2" :> <<108, 111, 99, 50>> @@
    "acc2" :> <<97, 99, 99, 50>> @@
    "Name" :> <<78, 97, 109, 101>> @@
    "Surn" :> <<83, 117, 114, 110>> @@
    "Supr" :> <<83, 117, 112, 114>> @@
    "past" :> <<112, 97, 115, 116>> @@
    "pres" :> <<112, 114, 101, 115>> @@
    "indc" :> <<105, 110, 100, 99>> @@
    "actv" :> <<97, 99, 116, 118>> @@
    "3per" :> <<51, 112, 101, 114>> @@
    "V-oy" :> <<86, 45, 111, 121>> @@
    "V-ey" :> <<86, 45, 101, 121>> @@
    "V-ieyu" :> <<86, 45, 105, 101, 121, 117>> @@
    "V-be" :> <<86, 45, 98, 101>>

text_of(seq) == join(COMMA, [n \in DOMAIN seq |-> GRAMMEME_TEXT[seq[n]]])

\* The text of a tag: its grammemes joined by commas, the two groups by a
\* space.
tag_text(lex, frm) ==
    IF frm = <<>> THEN text_of(lex)
    ELSE text_of(lex) \o SPACE \o text_of(frm)

\* A tag object: its grammemes and its text.
Tag(lex, frm) == [lex |-> lex, frm |-> frm, text |-> tag_text(lex, frm)]

\* str(tag)
str(tag) == tag.text

\* CASE_PRIORITY in its insertion order, which is the order of the search.
CASE_PRIORITY ==
    << <<"nomn", 10>>, <<"gent", 9>>, <<"datv", 8>>, <<"ablt", 7>>, <<"loct", 6>>,
       <<"accs", 5>>, <<"voct", 4>>, <<"loc2", 3>>, <<"gen2", 2>> >>

SING_BONUS == 20

\* The priority as it would be without the bonus for the singular.
get_form_priority_no_bonus(tag_str) ==
    LET hits == {n \in DOMAIN CASE_PRIORITY :
                     contains(GRAMMEME_TEXT[CASE_PRIORITY[n][1]], tag_str)}
    IN  IF hits = {} THEN 0
        ELSE CASE_PRIORITY[CHOOSE n \in hits : \A m \in hits : n <= m][2]

get_form_priority(tag_str) ==
    LET hits == {n \in DOMAIN CASE_PRIORITY :
                     contains(GRAMMEME_TEXT[CASE_PRIORITY[n][1]], tag_str)}
        prio == IF hits = {} THEN 0
                ELSE CASE_PRIORITY[CHOOSE n \in hits : \A m \in hits : n <= m][2]
    IN  IF contains(GRAMMEME_TEXT["sing"], tag_str) THEN prio + SING_BONUS ELSE prio

----------------------------------------------------------------------------
(* Tag attributes (pymorphy Tag: POS, case, number, gender).               *)

NoneG == "None"

POS_SET == {"NOUN", "ADJF", "ADJS", "COMP", "VERB", "INFN", "NPRO", "NUMR",
            "PRTF", "PRTS", "GRND"}

CASE_SET == {"nomn", "gent", "datv", "accs", "ablt", "loct", "voct", "gen2", "loc2", "acc2"}

NUMBER_SET == {"sing", "plur"}

GENDER_SET == {"masc", "femn", "neut"}

ANIMACY_SET == {"anim", "inan"}

TENSE_SET == {"past", "pres"}

PERSON_SET == {"3per"}

MOOD_SET == {"indc"}

VOICE_SET == {"actv"}

\* The grammeme of the class that the tag carries, or None.
attr(tag, class) ==
    IF grammemes(tag) \cap class = {} THEN NoneG
    ELSE CHOOSE g \in grammemes(tag) \cap class : TRUE

----------------------------------------------------------------------------
(* Forced adjective forms.                                                 *)

ADJ_ENDINGS == {<<cyr.y, cyr.j>>, <<cyr.o, cyr.j>>, <<cyr.i, cyr.j>>}

force_comp_adj(lemma, source_form) ==
    IF ~endswith_any(lemma, ADJ_ENDINGS) THEN <<lemma>>
    ELSE LET base == DropLast(lemma, 2)
         IN  IF source_form # <<>> /\ endswith(source_form, <<cyr.e, cyr.e>>)
             THEN <<base \o <<cyr.e, cyr.e>>>>
             ELSE IF source_form # <<>> /\ endswith(source_form, <<cyr.e, cyr.j>>)
             THEN <<base \o <<cyr.e, cyr.j>>>>
             ELSE <<base \o <<cyr.e, cyr.e>>, base \o <<cyr.e, cyr.j>>>>

force_short_adj(lemma, gender, number) ==
    IF ~endswith_any(lemma, ADJ_ENDINGS) THEN lemma
    ELSE LET base == DropLast(lemma, 2)
             ending_type == SubSeq(lemma, Len(lemma) - 1, Len(lemma))
         IN  IF number = "plur"
             THEN apply_orthography(base, IF ending_type = <<cyr.i, cyr.j>>
                                          THEN <<cyr.i>> ELSE <<cyr.y>>)
             ELSE IF gender = "masc" THEN base
             ELSE IF gender = "femn" THEN base \o <<cyr.a>>
             ELSE IF gender = "neut"
                  THEN base \o (IF ending_type = <<cyr.i, cyr.j>> THEN <<cyr.e>> ELSE <<cyr.o>>)
             ELSE base

----------------------------------------------------------------------------
(* PairGenerator.  A Parse is [normal_form, tag, score, lexeme]; a form of *)
(* a lexeme is [word, tag].  What morph.parse, morph.word_is_known and     *)
(* Parse.inflect answer is chosen by the actions below.                    *)

\* The exception of get_target_forms, where a list of words is expected.
Raised == <<RuntimeError>>

\* The sort as it would be if the parses were left in the analyzer's order.
sort_by_score_skipped(parses) == parses

\* cand.sort(key=score, reverse=True): stable, highest score first.
sort_by_score(parses) ==
    With(parses, LAMBDA cand :
        LET place(j) == Cardinality({m \in DOMAIN cand : cand[m].score > cand[j].score})
                        + Cardinality({m \in 1..(j - 1) : cand[m].score = cand[j].score})
                        + 1
        IN  [n \in DOMAIN cand |-> cand[CHOOSE j \in DOMAIN cand : place(j) = n]])

\* get_source_parses raises ValueError exactly when morph.parse gave nothing.
source_parse_fails(parses) == parses = <<>>

\* get_source_parses when it does not raise.
get_source_parses(parses, lemma) ==
    LET IsStrict(p) == p.normal_form = lemma
    IN  With(SelectSeq(parses, IsStrict), LAMBDA strict_cand :
        With(sort_by_score(IF strict_cand # <<>> THEN strict_cand ELSE parses),
             LAMBDA cand :
                 LET SamePos(p) == attr(p.tag, POS_SET) = attr(cand[1].tag, POS_SET)
                 IN  SelectSeq(cand, SamePos)))

make_form_key(p) ==
    LET t == p.tag
        pos == attr(t, POS_SET)
        vm == get_v_markers(t)
        case == attr(t, CASE_SET)
        num == attr(t, NUMBER_SET)
        gend == attr(t, GENDER_SET)
        anim == attr(t, ANIMACY_SET)
        deg == IF "COMP" \in grammemes(t) THEN "COMP"
               ELSE IF "Supr" \in grammemes(t) THEN "Supr" ELSE ""
    IN  IF pos \in {"NOUN", "NPRO", "NUMR"} THEN <<pos, case, num, vm>>
        ELSE IF pos \in {"ADJF", "ADJS"} THEN <<pos, case, num, gend, deg, anim, vm>>
        ELSE IF pos \in {"VERB", "INFN"}
             THEN <<pos, attr(t, MOOD_SET), attr(t, TENSE_SET), attr(t, PERSON_SET),
                    num, gend, attr(t, VOICE_SET), vm>>
        ELSE IF pos \in {"PRTF", "PRTS", "GRND"}
             THEN <<pos, attr(t, TENSE_SET), attr(t, VOICE_SET), case, num, gend, anim, vm>>
        ELSE <<pos, case, num, gend, vm>>

\* The candidate target parses after the POS, gender and category filters.
target_candidates(src_tag, all_target_parses) ==
    LET src_pos == attr(src_tag, POS_SET)
        SamePos(p) == attr(p.tag, POS_SET) = src_pos
        SameGender(p) == attr(p.tag, GENDER_SET) = attr(src_tag, GENDER_SET)
        IsSurn(p) == "Surn" \in grammemes(p.tag)
        IsName(p) == "Name" \in grammemes(p.tag)
        IsCommon(p) == ~IsSurn(p) /\ ~IsName(p)
    IN  With(SelectSeq(all_target_parses, SamePos), LAMBDA by_pos :
        With(IF by_pos # <<>> THEN by_pos ELSE all_target_parses, LAMBDA c1 :
        With(SelectSeq(c1, SameGender), LAMBDA by_gender :
        With(IF /\ src_pos \in {"NOUN", "NPRO"} /\ attr(src_tag, GENDER_SET) # NoneG
                /\ by_gender # <<>>
             THEN by_gender ELSE c1, LAMBDA c2 :
        With(IF "Surn" \in grammemes(src_tag) THEN SelectSeq(c2, IsSurn)
             ELSE IF "Name" \in grammemes(src_tag) THEN SelectSeq(c2, IsName)
             ELSE SelectSeq(c2, IsCommon), LAMBDA filtered :
             IF filtered # <<>> THEN filtered ELSE c2)))))

\* max(candidates, key=(len(lexeme), score)): the first maximal candidate.
best_parse(candidates) ==
    LET Better(p, q) == \/ Len(p.lexeme) > Len(q.lexeme)
                        \/ Len(p.lexeme) = Len(q.lexeme) /\ p.score > q.score
        first == CHOOSE n \in DOMAIN candidates :
                     /\ \A m \in DOMAIN candidates : ~Better(candidates[m], candidates[n])
                     /\ \A m \in 1..(n - 1) : Better(candidates[n], candidates[m])
    IN  candidates[first]

\* idx[key] for the key of the source form: sorted, without duplicates.
index_lookup(best_p, source_parse) ==
    sorted({best_p.lexeme[n].word : n \in
               {m \in DOMAIN best_p.lexeme :
                    make_form_key(best_p.lexeme[m]) = make_form_key(source_parse)}})

required_grams(src_tag) ==
    LET src_pos == attr(src_tag, POS_SET)
        Opt(class) == {attr(src_tag, class)} \ {NoneG}
    IN  Opt(NUMBER_SET) \cup Opt(CASE_SET)
        \cup (IF src_pos \in {"ADJF", "ADJS", "PRTF", "PRTS", "VERB", "NPRO"}
              THEN Opt(GENDER_SET) ELSE {})
        \cup (IF src_pos \in {"VERB", "INFN"}
              THEN Opt(TENSE_SET) \cup Opt(PERSON_SET) \cup Opt(MOOD_SET) ELSE {})
        \cup (IF "COMP" \in grammemes(src_tag) THEN {"COMP"}
              ELSE IF "Supr" \in grammemes(src_tag) THEN {"Supr"} ELSE {})

\* What best_p.inflect(required_grams) can answer: the word of a form of the
\* lexeme that carries every required grammeme, or None when there is none.
\* It is only asked when the index has no entry for the source form.
inflect_answers(source_parse, all_target_parses) ==
    With(target_candidates(source_parse.tag, all_target_parses), LAMBDA candidates :
        IF candidates = <<>> THEN {None}
        ELSE With(best_parse(candidates), LAMBDA best_p :
             With({n \in DOMAIN best_p.lexeme :
                       required_grams(source_parse.tag)
                           \subseteq grammemes(best_p.lexeme[n].tag)}, LAMBDA fit :
                 IF index_lookup(best_p, source_parse) # <<>> \/ fit = {}
                 THEN {None}
                 ELSE {best_p.lexeme[n].word : n \in fit})))

\* get_target_forms, given the (cached) parses of the target lemma and the
\* answer of inflect: a list of words, or Raised.
get_target_forms(source_parse, target_lemma, all_target_parses, inf) ==
    LET src_tag == source_parse.tag
        src_pos == attr(src_tag, POS_SET)
    IN  With(target_candidates(src_tag, all_target_parses), LAMBDA candidates :
        IF candidates = <<>> THEN Raised
        ELSE With(best_parse(candidates), LAMBDA best_p :
             With(index_lookup(best_p, source_parse), LAMBDA found :
                 IF found # <<>> THEN found
                 ELSE IF inf # None THEN <<inf>>
                 ELSE IF src_pos = "ADJS"
                      THEN <<force_short_adj(target_lemma, attr(src_tag, GENDER_SET),
                                             attr(src_tag, NUMBER_SET))>>
                 ELSE IF src_pos = "COMP"
                      THEN force_comp_adj(target_lemma, source_parse.word)
                 ELSE Raised)))

\* for p in src_parses: for f in p.lexeme: the forms in that order.
concat_lexemes(src_parses) ==
    LET at == UNION {{<<p, k>> : k \in DOMAIN src_parses[p].lexeme} :
                        p \in DOMAIN src_parses}
        before(x, y) == x[1] < y[1] \/ (x[1] = y[1] /\ x[2] < y[2])
        nth(n) == CHOOSE x \in at : Cardinality({y \in at : before(y, x)}) = n - 1
    IN  [n \in 1..Cardinality(at) |-> src_parses[nth(n)[1]].lexeme[nth(n)[2]]]

form_sig(f) == <<f.word, str(f.tag)>>

\* full_lexeme: each form once, by (word, tag text), first occurrence kept.
dedup_forms(forms_in_order) ==
    With(forms_in_order, LAMBDA all :
    With({n \in DOMAIN all :
              \A m \in 1..(n - 1) : form_sig(all[m]) # form_sig(all[n])}, LAMBDA keep :
        [n \in 1..Cardinality(keep) |->
            all[CHOOSE j \in keep : Cardinality({m \in keep : m < j}) = n - 1]]))

full_lexeme_of(src_parses) == dedup_forms(concat_lexemes(src_parses))

\* FormRow
FormRow(source, target, tag) == [source |-> source, target |-> target, tag |-> tag]

\* r1 before r2 in rows.sort(key=(source, tag, target))
row_lt(r1, r2) ==
    \/ text_lt(r1.source, r2.source)
    \/ r1.source = r2.source /\ text_lt(r1.tag, r2.tag)
    \/ r1.source = r2.source /\ r1.tag = r2.tag /\ text_lt(r1.target, r2.target)

\* rows.sort(key=...): a stable sort, rows of equal key stay in their order.
sort_rows(rows) ==
    With(rows, LAMBDA all :
        [n \in DOMAIN all |->
            all[CHOOSE j \in DOMAIN all :
                    Cardinality({m \in DOMAIN all :
                                     \/ row_lt(all[m], all[j])
                                     \/ ~row_lt(all[j], all[m]) /\ m < j}) = n - 1]])

\* The rows in the order of the loops over the lexeme and over the target
\* words of each form, before the test against seen.  resolved[n] tells the
\* target words of the n-th form.
all_rows(resolved, target_lemma) ==
    LET before(x, y) == x[1] < y[1] \/ (x[1] = y[1] /\ x[2] < y[2])
    IN  With(UNION {{<<n, k>> : k \in DOMAIN resolved[n].target_words} :
                       n \in DOMAIN resolved}, LAMBDA at :
        [n \in 1..Cardinality(at) |->
            With(CHOOSE x \in at : Cardinality({y \in at : before(y, x)}) = n - 1,
                 LAMBDA x :
                FormRow(resolved[x[1]].form.word,
                        normalize_case_like(target_lemma,
                                            resolved[x[1]].target_words[x[2]]),
                        str(resolved[x[1]].form.tag)))])

\* The rows as they would be without the test against seen.
dedup_rows_skipped(rows_in_order) == rows_in_order

\* if key not in seen: each (source, target, tag) once, first occurrence kept.
dedup_rows(rows_in_order) ==
    With(rows_in_order, LAMBDA all :
    With({n \in DOMAIN all : \A m \in 1..(n - 1) : all[m] # all[n]}, LAMBDA keep :
        [n \in 1..Cardinality(keep) |->
            all[CHOOSE j \in keep : Cardinality({m \in keep : m < j}) = n - 1]]))

\* rows after the loop over the lexeme.
rows_of(resolved, target_lemma) == dedup_rows(all_rows(resolved, target_lemma))

----------------------------------------------------------------------------
(* Inputs of the pure functions.                                           *)

RECURSIVE BoundedSeq(_, _)
BoundedSeq(S, n) ==
    IF n = 0 THEN {<<>>}
    ELSE LET shorter == BoundedSeq(S, n - 1)
         IN  shorter \cup {w \o <<c>> : w \in {x \in shorter : Len(x) = n - 1}, c \in S}

\* Every ending of SCHEMAS, and endings that begin with the letter the
\* orthography rule rewrites.
SchemaEndings ==
    {SCHEMAS[t][n][c] : t \in DOMAIN SCHEMAS, n \in {"sing", "plur"},
                        c \in {"nomn", "gent", "datv", "accs", "ablt", "loct"}} \ {None}

OrthStems == BoundedSeq(HUSH \cup {cyr.c, cyr.l, cyr.a}, MaxStemLen)

OrthEndings == SchemaEndings \cup {<<cyr.y, cyr.e>>, <<cyr.y, cyr.y>>}

\* Lemmas: a short stem followed by one of the endings classify looks at.
LemmaStems == BoundedSeq({cyr.b, cyr.a, cyr.zh}, MaxStemLen)

LemmaSuffixes ==
    { <<>>, <<cyr.u>>, <<cyr.yu>>, <<cyr.eh>>, <<cyr.o>>, <<cyr.e>>, <<cyr.i>>,
      <<cyr.i, cyr.i>>, <<cyr.i, cyr.ya>>, <<cyr.i, cyr.e>>, <<cyr.m, cyr.ya>>,
      <<cyr.o, cyr.k>>, <<cyr.o, cyr.l>>, <<cyr.e, cyr.c>>, <<cyr.a>>, <<cyr.ya>>,
      <<cyr.j>>, <<cyr.soft>>, <<cyr.o, cyr.s, cyr.t, cyr.soft>>, <<cyr.z, cyr.n, cyr.soft>>,
      <<cyr.d, cyr.soft>>, <<cyr.k>>, <<cyr.c>>, <<cyr.t>> }

Lemmas == {stem \o suffix : stem \in LemmaStems, suffix \in LemmaSuffixes}

Cases == {"nomn", "gent", "datv", "accs", "ablt", "loct", "voct", "gen2", "loc2", "acc2"}

Numbers == {"sing", "plur"}

DeclineTags ==
    { NoTag,
      Tag(<<"NOUN", "inan", "femn">>, <<"sing", "nomn">>),
      Tag(<<"NOUN", "anim", "masc">>, <<"plur", "gent">>),
      Tag(<<"NOUN", "inan", "femn">>, <<"sing", "ablt", "V-oy">>),
      Tag(<<"NOUN", "inan", "femn">>, <<"plur", "ablt", "V-ey">>),
      Tag(<<"NOUN", "anim", "masc", "Name">>, <<"plur", "ablt", "V-ieyu">>) }

\* References and texts of the casing normaliser: upper- and lower-case
\* letters and the hyphen.
CaseTexts == BoundedSeq({1040, 1073, 1105, 45}, MaxTextLen)

----------------------------------------------------------------------------
(* The pure functions as a state machine: Init draws the arguments, one    *)
(* action per function applies it.                                         *)

NoCall == [fn |-> "none", done |-> TRUE]

NoGen == [returned |-> ""]

OrthCalls ==
    [fn : {"apply_orthography"}, stem : OrthStems, ending : OrthEndings,
     ret : {None}, done : {FALSE}]

ClassifyCalls ==
    [fn : {"classify"}, word : Lemmas, ret : {<<"", <<>>>>}, done : {FALSE}]

DeclineCalls ==
    [fn : {"decline"}, lemma : Lemmas, case : Cases, number : Numbers,
     animate : BOOLEAN, src_tag : DeclineTags, ret : {None}, done : {FALSE}]

CaseCalls ==
    [fn : {"normalize_case_like"}, reference : CaseTexts, text : CaseTexts,
     ret : {None}, done : {FALSE}]

Call_apply_orthography ==
    /\ call.fn = "apply_orthography" /\ ~call.done
    /\ call' = [call EXCEPT !.ret = apply_orthography(call.stem, call.ending),
                            !.done = TRUE]
    /\ UNCHANGED <<pairs, i, pc, replacements_prio_map, replacements_flat, results,
                   forms, target_cache, parse_calls, log, gen, offered>>

Call_classify ==
    /\ call.fn = "classify" /\ ~call.done
    /\ call' = [call EXCEPT !.ret = classify(call.word), !.done = TRUE]
    /\ UNCHANGED <<pairs, i, pc, replacements_prio_map, replacements_flat, results,
                   forms, target_cache, parse_calls, log, gen, offered>>

Call_decline ==
    /\ call.fn = "decline" /\ ~call.done
    /\ call' = [call EXCEPT !.ret = decline(call.lemma, call.case, call.number,
                                            call.animate, call.src_tag),
                            !.done = TRUE]
    /\ UNCHANGED <<pairs, i, pc, replacements_prio_map, replacements_flat, results,
                   forms, target_cache, parse_calls, log, gen, offered>>

Call_normalize_case_like ==
    /\ call.fn = "normalize_case_like" /\ ~call.done
    /\ call' = [call EXCEPT !.ret = normalize_case_like(call.reference, call.text),
                            !.done = TRUE]
    /\ UNCHANGED <<pairs, i, pc, replacements_prio_map, replacements_flat, results,
                   forms, target_cache, parse_calls, log, gen, offered>>

EmptyMap == [k \in {} |-> <<>>]

----------------------------------------------------------------------------
(* The input lists and the analyzer answers the model draws from.          *)

W_kot == <<cyr.k, cyr.o, cyr.t>>
W_kota == <<cyr.k, cyr.o, cyr.t, cyr.a>>
W_zhaba == <<cyr.zh, cyr.a, cyr.b, cyr.a>>
W_zhaby == <<cyr.zh, cyr.a, cyr.b, cyr.y>>
W_zhaboj == <<cyr.zh, cyr.a, cyr.b, cyr.o, cyr.j>>
W_zhabam == <<cyr.zh, cyr.a, cyr.b, cyr.a, cyr.m>>
W_zhab == <<cyr.zh, cyr.a, cyr.b>>
W_Otec == capitalize(<<cyr.o, cyr.t, cyr.e, cyr.c>>)

\* item.get('source') / item.get('target'): None when the field is missing.
Item(source, target) == [source |-> source, target |-> target]

Items ==
    { Item(None, W_zhaba),
      Item(W_kot, <<>>),
      Item(SPACE, SPACE),
      Item(W_kot, W_zhaba),
      Item(SPACE \o capitalize(W_kot), W_Otec \o SPACE) }

Form(word, tag) == [word |-> word, tag |-> tag]

Parse(normal_form, score, lexeme) ==
    [normal_form |-> normal_form, tag |-> lexeme[1].tag, score |-> score,
     lexeme |-> lexeme]

F_nomn_sing == Form(W_kot, Tag(<<"NOUN", "anim", "masc">>, <<"sing", "nomn">>))
F_gent_sing == Form(W_kota, Tag(<<"NOUN", "anim", "masc">>, <<"sing", "gent">>))
F_datv_plur == Form(W_kota, Tag(<<"NOUN", "anim", "masc">>, <<"plur", "datv">>))
F_nomn_plur == Form(capitalize(W_kota), Tag(<<"NOUN", "anim", "masc">>, <<"plur", "nomn">>))
F_ablt_oy == Form(W_kota, Tag(<<"NOUN", "inan", "femn">>, <<"sing", "ablt", "V-oy">>))
F_adjs == Form(W_kota, Tag(<<"ADJS">>, <<"masc", "sing">>))
F_comp == Form(W_kota, Tag(<<"COMP">>, <<>>))
F_fixed == Form(W_kot, Tag(<<"NOUN", "inan", "masc">>, <<>>))

SRC_PARSES ==
    { Parse(W_kot, 2, <<F_nomn_sing, F_gent_sing, F_datv_plur>>),
      Parse(W_kot, 1, <<F_ablt_oy, F_fixed, F_nomn_plur>>),
      Parse(W_kota, 2, <<F_adjs, F_comp>>) }

TGT_PARSES ==
    { Parse(W_zhaba, 2,
            << Form(W_zhaba, Tag(<<"NOUN", "inan", "femn">>, <<"sing", "nomn">>)),
               Form(W_zhaby, Tag(<<"NOUN", "inan", "femn">>, <<"sing", "gent">>)),
               Form(W_zhaboj, Tag(<<"NOUN", "inan", "femn">>, <<"sing", "ablt">>)),
               Form(W_zhabam, Tag(<<"NOUN", "inan", "femn">>, <<"plur", "datv">>)) >>),
      Parse(W_zhaba, 1,
            << Form(W_zhab, Tag(<<"NOUN", "anim", "masc", "Name">>, <<"sing", "nomn">>)),
               Form(W_zhaby, Tag(<<"NOUN", "anim", "masc", "Name">>, <<"plur", "nomn">>)) >>),
      Parse(W_zhab, 1,
            << Form(W_zhab, Tag(<<"ADJS">>, <<"masc", "sing">>)) >>) }

\* A paradigm with two spellings of one form that differ in case only, and
\* two different words for another form.
TGT_VARIANTS ==
    Parse(W_zhaba, 2,
          << Form(W_zhaba, Tag(<<"NOUN", "anim", "masc">>, <<"sing", "nomn">>)),
             Form(capitalize(W_zhaba), Tag(<<"NOUN", "anim", "masc">>, <<"sing", "nomn">>)),
             Form(W_zhaby, Tag(<<"NOUN", "anim", "masc">>, <<"sing", "gent">>)),
             Form(W_zhab, Tag(<<"NOUN", "anim", "masc">>, <<"sing", "gent">>)) >>)

\* Which of several fitting forms inflect answers.
INFLECT_PICKS == {"first", "last"}

\* What morph.parse can answer for a source lemma and for a target lemma.
SrcAnswers == BoundedSeq(SRC_PARSES, MaxSrcParses)

TgtAnswers == BoundedSeq(TGT_PARSES, MaxTgtParses)

----------------------------------------------------------------------------
(* main: the loop over the pairs, generate, and the collision resolver.    *)

falsy(field) == field = None \/ field = <<>>

\* The seed as it would be with the key left in the case of the rule.
seeded_unlowered(map, s, t) ==
    LET t_aligned == normalize_case_like(t, t)
    IN  IF s \in DOMAIN map THEN map
        ELSE (s :> <<t_aligned, 0>>) @@ map

\* The seed as it would be written without the membership test.
seeded_overwriting(map, s, t) ==
    LET s_lower == lower(s)
        t_aligned == normalize_case_like(t, t)
    IN  [k \in DOMAIN map \cup {s_lower} |->
            IF k = s_lower THEN <<t_aligned, 0>> ELSE map[k]]

seeded(map, s, t) ==
    LET s_lower == lower(s)
        t_aligned == normalize_case_like(t, t)
    IN  IF s_lower \in DOMAIN map THEN map
        ELSE (s_lower :> <<t_aligned, 0>>) @@ map

\* The resolver as it would be if a row of equal priority replaced the entry.
merged_on_ties(map, form) ==
    LET src_word == lower(form.source)
        tgt_word == form.target
        new_prio == get_form_priority(form.tag)
    IN  IF src_word \notin DOMAIN map
        THEN (src_word :> <<tgt_word, new_prio>>) @@ map
        ELSE IF new_prio >= map[src_word][2]
             THEN [map EXCEPT ![src_word] = <<tgt_word, new_prio>>]
             ELSE map

merged(map, form) ==
    LET src_word == lower(form.source)
        tgt_word == form.target
        new_prio == get_form_priority(form.tag)
    IN  IF src_word \notin DOMAIN map
        THEN (src_word :> <<tgt_word, new_prio>>) @@ map
        ELSE IF new_prio > map[src_word][2]
             THEN [map EXCEPT ![src_word] = <<tgt_word, new_prio>>]
             ELSE map

\* What main offers to the priority map: the literal seed of the pair n
\* with priority 0, and a generated row with the priority of its tag.
seed_candidate(s, t, n) ==
    [key |-> lower(s), value |-> normalize_case_like(t, t), prio |-> 0, pair |-> n]

row_candidate(form, n) ==
    [key |-> lower(form.source), value |-> form.target,
     prio |-> get_form_priority(form.tag), pair |-> n]

Init ==
    /\ pairs \in BoundedSeq(Items, MaxPairs)
    /\ i = 0 /\ pc = "loop"
    /\ replacements_prio_map = EmptyMap /\ replacements_flat = EmptyMap
    /\ results = <<>> /\ forms = <<>>
    /\ target_cache = EmptyMap /\ parse_calls = <<>> /\ log = <<>>
    /\ gen = NoGen /\ offered = <<>>
    /\ call = NoCall

\* if not s or not t: continue
SkipItem ==
    /\ pc = "loop" /\ i < Len(pairs)
    /\ falsy(pairs[i + 1].source) \/ falsy(pairs[i + 1].target)
    /\ i' = i + 1
    /\ UNCHANGED <<pairs, pc, replacements_prio_map, replacements_flat, results,
                   forms, target_cache, parse_calls, log, gen, offered, call>>

\* The seed is written, generate finds no parse of the source lemma and
\* returns None.
SourceParseFailed ==
    /\ pc = "loop" /\ i < Len(pairs)
    /\ ~falsy(pairs[i + 1].source) /\ ~falsy(pairs[i + 1].target)
    /\ LET s == strip(pairs[i + 1].source)
           t == strip(pairs[i + 1].target)
       IN  /\ \E parses \in SrcAnswers : source_parse_fails(parses)
           /\ replacements_prio_map' = seeded(replacements_prio_map, s, t)
           /\ offered' = Append(offered, seed_candidate(s, t, i + 1))
           /\ gen' = [returned |-> "None", source_lemma |-> s, target_lemma |-> t,
                      full_lexeme |-> <<>>]
    /\ i' = i + 1
    /\ log' = <<>>
    /\ UNCHANGED <<pairs, pc, replacements_flat, results, forms, target_cache,
                   parse_calls, call>>

\* The decliner test as it would be without the dictionary check.
decliner_tried_always(sf, target_is_known) ==
    /\ attr(sf.tag, POS_SET) = "NOUN"
    /\ attr(sf.tag, CASE_SET) # NoneG
    /\ attr(sf.tag, NUMBER_SET) # NoneG

\* How generate resolves one source form: the heuristic decliner when it
\* applies and succeeds, else target-form matching, else the literal lemma.
decliner_tried(sf, target_is_known) ==
    /\ attr(sf.tag, POS_SET) = "NOUN" /\ ~target_is_known
    /\ attr(sf.tag, CASE_SET) # NoneG
    /\ attr(sf.tag, NUMBER_SET) # NoneG

declined_word(sf, target_lemma, animate) ==
    decline(target_lemma, attr(sf.tag, CASE_SET), attr(sf.tag, NUMBER_SET),
            animate, sf.tag)

decliner_succeeds(sf, target_lemma, animate, target_is_known) ==
    /\ decliner_tried(sf, target_is_known)
    /\ declined_word(sf, target_lemma, animate) # RuntimeError

\* Parse.inflect: the analyzer answers one of the fitting forms.
inflect(source_parse, all_target_parses, pick) ==
    With(inflect_answers(source_parse, all_target_parses), LAMBDA answers :
        IF pick = "first" THEN CHOOSE a \in answers : \A b \in answers \ {a} : text_lt(a, b)
        ELSE CHOOSE a \in answers : \A b \in answers \ {a} : text_lt(b, a))

\* Whether the pick makes a difference for some form of the lexeme.
inflect_ambiguous(full_lexeme, all_target_parses) ==
    \E n \in DOMAIN full_lexeme :
        Cardinality(inflect_answers(full_lexeme[n], all_target_parses)) > 1

\* The resolution of a form as it would be without the literal-lemma fallback.
resolve_form_no_literal(sf, target_lemma, animate, target_is_known, all_target_parses, pick) ==
    With(decliner_tried(sf, target_is_known), LAMBDA tried :
    With(IF tried THEN declined_word(sf, target_lemma, animate) ELSE RuntimeError,
         LAMBDA w :
        IF w # RuntimeError
        THEN [form |-> sf, decliner |-> "ok", matching |-> "skipped",
              target_words |-> <<w>>]
        ELSE With(inflect(sf, all_target_parses, pick), LAMBDA inf :
             With(get_target_forms(sf, target_lemma, all_target_parses, inf), LAMBDA got :
                 [form |-> sf,
                  decliner |-> IF tried THEN "failed" ELSE "skipped",
                  matching |-> IF got = Raised THEN "failed" ELSE "ok",
                  target_words |-> IF got = Raised THEN <<>> ELSE got]))))

resolve_form(sf, target_lemma, animate, target_is_known, all_target_parses, pick) ==
    With(decliner_tried(sf, target_is_known), LAMBDA tried :
    With(IF tried THEN declined_word(sf, target_lemma, animate) ELSE RuntimeError,
         LAMBDA w :
        IF w # RuntimeError
        THEN [form |-> sf, decliner |-> "ok", matching |-> "skipped",
              target_words |-> <<w>>]
        ELSE With(inflect(sf, all_target_parses, pick), LAMBDA inf :
             With(get_target_forms(sf, target_lemma, all_target_parses, inf), LAMBDA got :
                 [form |-> sf,
                  decliner |-> IF tried THEN "failed" ELSE "skipped",
                  matching |-> IF got = Raised THEN "failed" ELSE "ok",
                  target_words |-> IF got = Raised THEN <<target_lemma>> ELSE got]))))

\* The test as it would be if the cache were never consulted.
cache_miss_always(cache, target_lemma) == TRUE

\* if target_lemma not in self._target_cache
cache_miss(cache, target_lemma) == target_lemma \notin DOMAIN cache

\* Whether some form of the lexeme reaches get_target_forms.
matching_called(full_lexeme, target_lemma, animate, target_is_known) ==
    \E n \in DOMAIN full_lexeme :
        ~decliner_succeeds(full_lexeme[n], target_lemma, animate, target_is_known)

\* res['forms'] of generate as a function of its arguments and of what the
\* analyzer answers: the parses of the source lemma, word_is_known, the
\* parses of the target lemma and the choice of inflect.
generate_forms(parses, source_lemma, target_lemma, target_is_known, all_target_parses, pick) ==
    With(get_source_parses(parses, source_lemma), LAMBDA src_parses :
    With(full_lexeme_of(src_parses), LAMBDA full_lexeme :
    With("anim" \in grammemes(src_parses[1].tag), LAMBDA animate :
        sort_rows(rows_of([n \in DOMAIN full_lexeme |->
                              resolve_form(full_lexeme[n], target_lemma, animate,
                                           target_is_known, all_target_parses, pick)],
                          target_lemma)))))

\* The seed is written; generate parses the source lemma, resolves every
\* form of the merged lexeme, sorts the rows and returns; main appends the
\* result.
Generate ==
    /\ pc = "loop" /\ i < Len(pairs)
    /\ ~falsy(pairs[i + 1].source) /\ ~falsy(pairs[i + 1].target)
    /\ \E s \in {strip(pairs[i + 1].source)}, t \in {strip(pairs[i + 1].target)} :
       LET cached == ~cache_miss(target_cache, t)
       IN  /\ replacements_prio_map' = seeded(replacements_prio_map, s, t)
           /\ offered' = Append(offered, seed_candidate(s, t, i + 1))
           /\ \E parses \in SrcAnswers \ {<<>>}, target_is_known \in BOOLEAN :
              \E src_parses \in {get_source_parses(parses, s)} :
              \E full_lexeme \in {full_lexeme_of(src_parses)} :
              \E animate \in {"anim" \in grammemes(src_parses[1].tag)} :
              \E called \in {matching_called(full_lexeme, t, animate, target_is_known)} :
              \E answer \in (IF cached THEN {target_cache[t]}
                             ELSE IF called THEN TgtAnswers ELSE {<<>>}),
                 pick \in (IF called THEN INFLECT_PICKS ELSE {"first"}) :
              (pick = "first" \/ inflect_ambiguous(full_lexeme, answer)) /\
              \E resolved \in {[n \in DOMAIN full_lexeme |->
                                   resolve_form(full_lexeme[n], t, animate,
                                                target_is_known, answer, pick)]} :
              \E rows \in {sort_rows(rows_of(resolved, t))} :
                  /\ target_cache' = IF called /\ ~cached
                                     THEN (t :> answer) @@ target_cache
                                     ELSE target_cache
                  /\ parse_calls' = IF called /\ ~cached
                                    THEN Append(parse_calls, t)
                                    ELSE parse_calls
                  /\ gen' = [returned |-> "dict", source_lemma |-> s,
                             target_lemma |-> t, full_lexeme |-> full_lexeme,
                             animate |-> animate,
                             target_is_known |-> target_is_known]
                  /\ log' = resolved
                  /\ results' = Append(results,
                                       [source_lemma |-> s, target_lemma |-> t,
                                        source_parse |-> str(src_parses[1].tag),
                                        forms |-> rows])
                  /\ forms' = rows
                  /\ IF rows = <<>> THEN pc' = "loop" /\ i' = i + 1
                                    ELSE pc' = "merge" /\ i' = i
    /\ UNCHANGED <<pairs, replacements_flat, call>>

\* One row of res['forms'] enters the priority map.
MergeForm ==
    /\ pc = "merge" /\ forms # <<>>
    /\ replacements_prio_map' = merged(replacements_prio_map, Head(forms))
    /\ offered' = Append(offered, row_candidate(Head(forms), i + 1))
    /\ forms' = Tail(forms)
    /\ IF Tail(forms) = <<>> THEN pc' = "loop" /\ i' = i + 1
                             ELSE pc' = "merge" /\ i' = i
    /\ UNCHANGED <<pairs, replacements_flat, results, target_cache, parse_calls,
                   log, gen, call>>

\* After the loop: the flat map is the projection of the priority map.
Flatten ==
    /\ pc = "loop" /\ i = Len(pairs)
    /\ replacements_flat' = [k \in DOMAIN replacements_prio_map |->
                                 replacements_prio_map[k][1]]
    /\ pc' = "done"
    /\ UNCHANGED <<pairs, i, replacements_prio_map, results, forms, target_cache,
                   parse_calls, log, gen, offered, call>>

Next ==
    \/ SkipItem
    \/ SourceParseFailed
    \/ Generate
    \/ MergeForm
    \/ Flatten

Spec == Init /\ [][Next]_vars

----------------------------------------------------------------------------
(* generate as a function of its arguments and of the analyzer's answers,  *)
(* and the specification of the pure functions.                            *)

GenerateCalls ==
    [fn : {"generate"}, parses : SrcAnswers,
     source_lemma : {W_kot, capitalize(W_kot)}, target_lemma : {W_zhaba, W_Otec},
     target_is_known : BOOLEAN,
     all_target_parses : TgtAnswers \cup {<<TGT_VARIANTS>>},
     pick : INFLECT_PICKS, ret : {None}, done : {FALSE}]

Call_generate ==
    /\ call.fn = "generate" /\ ~call.done
    /\ call' = [call EXCEPT
                   !.ret = IF source_parse_fails(call.parses) THEN None
                           ELSE generate_forms(call.parses, call.source_lemma,
                                               call.target_lemma, call.target_is_known,
                                               call.all_target_parses, call.pick),
                   !.done = TRUE]
    /\ UNCHANGED <<pairs, i, pc, replacements_prio_map, replacements_flat, results,
                   forms, target_cache, parse_calls, log, gen, offered>>

InitFn ==
    /\ call \in OrthCalls \cup ClassifyCalls \cup DeclineCalls \cup CaseCalls
                \cup GenerateCalls
    /\ pairs = <<>> /\ i = 0 /\ pc = "done"
    /\ replacements_prio_map = EmptyMap /\ replacements_flat = EmptyMap
    /\ results = <<>> /\ forms = <<>>
    /\ target_cache = EmptyMap /\ parse_calls = <<>> /\ log = <<>>
    /\ gen = NoGen /\ offered = <<>>

NextFn ==
    \/ Call_apply_orthography
    \/ Call_classify
    \/ Call_decline
    \/ Call_normalize_case_like
    \/ Call_generate

SpecFn == InitFn /\ [][NextFn]_vars

----------------------------------------------------------------------------
(* Claims about the pure functions.                                        *)

\* C5: apply_orthography(stem, ending) is stem + ending when either is
\* empty; when the ending starts with "y" (U+044B) and the stem ends in one
\* of the eight letters g, k, h, zh, ch, sh, sch, c it is the stem, "i" and
\* the rest of the ending; otherwise stem + ending.
C5_EightLetters == HUSH \cup {cyr.c}

C5_OrthographyAsDocumented ==
    (call.fn = "apply_orthography" /\ call.done) =>
        call.ret =
            IF call.stem = <<>> \/ call.ending = <<>>
            THEN call.stem \o call.ending
            ELSE IF call.ending[1] = cyr.y /\ Last(call.stem) \in C5_EightLetters
                 THEN call.stem \o <<cyr.i>> \o Tail(call.ending)
                 ELSE call.stem \o call.ending

\* C6: a lemma ending in u, yu or eh, or in i but not ii, is classified
\* indeclinable with the whole lemma as stem, and decline returns it
\* unchanged for every case and number.
C6_IndeclinableEnding(word) ==
    \/ endswith_any(word, {<<cyr.u>>, <<cyr.yu>>, <<cyr.eh>>})
    \/ endswith(word, <<cyr.i>>) /\ ~endswith(word, <<cyr.i, cyr.i>>)

C6_IndeclinableUnchanged ==
    /\ (call.fn = "classify" /\ call.done /\ C6_IndeclinableEnding(call.word)) =>
           call.ret = <<"indeclinable", call.word>>
    /\ (call.fn = "decline" /\ call.done /\ C6_IndeclinableEnding(call.lemma)) =>
           call.ret = call.lemma

\* C7: when the lemma's class has a null accusative entry for the number,
\* the accusative form equals the genitive form for an animate noun and the
\* nominative form for an inanimate one, for every source tag.
C7_NullAccusative(lemma, number) ==
    /\ classify(lemma)[1] \in DOMAIN SCHEMAS
    /\ SCHEMAS[classify(lemma)[1]][number].accs = None

C7_AccusativeFollowsAnimacy ==
    (/\ call.fn = "decline" /\ call.done /\ call.case = "accs"
     /\ C7_NullAccusative(call.lemma, call.number)) =>
        call.ret = decline(call.lemma, IF call.animate THEN "gent" ELSE "nomn",
                           call.number, call.animate, call.src_tag)

\* The fleeting-vowel lemmas of C14: longer than three letters, ending in
\* -ок, -ол or -ец, with a non-vowel before the suffix.
C14_Fleeting(lemma) ==
    /\ Len(lemma) > 3
    /\ endswith_any(lemma, {<<cyr.o, cyr.k>>, <<cyr.o, cyr.l>>, <<cyr.e, cyr.c>>})
    /\ lemma[Len(lemma) - 2] \notin VOWELS

\* The case whose ending the form takes: the accusative of an inanimate
\* noun is its nominative, that of an animate noun its genitive.
C14_Case(case, animate) ==
    IF case_map(case) = "accs" THEN (IF animate THEN "gent" ELSE "nomn")
    ELSE case_map(case)

\* C14: for a fleeting-vowel lemma the nominative singular is the lemma
\* itself, and every other form of the six schema cases is built on the
\* lemma with the vowel of the suffix dropped.
C14_NominativeIsLemma ==
    (/\ call.fn = "decline" /\ call.done /\ C14_Fleeting(call.lemma)
     /\ case_map(call.case) \in {"nomn", "gent", "datv", "accs", "ablt", "loct"}) =>
        IF C14_Case(call.case, call.animate) = "nomn" /\ call.number = "sing"
        THEN call.ret = call.lemma
        ELSE /\ call.ret # RuntimeError
             /\ Len(call.ret) > Len(call.lemma) - 1
             /\ SubSeq(call.ret, 1, Len(call.lemma) - 1) =
                    DropLast(call.lemma, 2) \o <<Last(call.lemma)>>

\* C17: the plural instrumental of a lemma of the feminine -а, -я or -ия
\* class is the stem joined with the plural instrumental ending of the
\* schema, whatever variant markers the source tag carries.
C17_PluralInstrumentalFromSchema ==
    (/\ call.fn = "decline" /\ call.done
     /\ call.case = "ablt" /\ call.number = "plur"
     /\ classify(call.lemma)[1] \in {"fem_a", "fem_ya", "fem_ia"}) =>
        call.ret = apply_orthography(classify(call.lemma)[2],
                                     SCHEMAS[classify(call.lemma)[1]]["plur"].ablt)

\* The three cases of C11, position by position: a hyphen stays, the first
\* character of a hyphen-delimited segment is upper-cased and every other
\* one lower-cased.
C11_Expected(reference, text) ==
    IF reference # <<>> /\ reference[1] \in UPPER_LETTERS
    THEN IF Len(reference) > 1 /\ \A n \in DOMAIN reference :
                                      reference[n] \notin LOWER_LETTERS
         THEN [n \in DOMAIN text |-> upper_char(text[n])]
         ELSE [n \in DOMAIN text |->
                  IF text[n] = 45 THEN 45
                  ELSE IF n = 1 \/ text[n - 1] = 45 THEN upper_char(text[n])
                  ELSE lower_char(text[n])]
    ELSE [n \in DOMAIN text |-> lower_char(text[n])]

\* C11: normalize_case_like(reference, text) is text upper-cased for an
\* all-upper reference longer than one character, text capitalised segment
\* by segment for any other reference that starts with an upper-case
\* letter, and text lower-cased otherwise; the result is the same for the
\* lower-cased and the upper-cased text, and normalising the result again
\* with the same reference changes nothing.
C11_CaseLike ==
    (call.fn = "normalize_case_like" /\ call.done) =>
        /\ call.ret = C11_Expected(call.reference, call.text)
        /\ call.ret = normalize_case_like(call.reference, lower(call.text))
        /\ call.ret = normalize_case_like(call.reference, upper(call.text))
        /\ normalize_case_like(call.reference, call.ret) = call.ret

C11_Witness ==
    /\ call.fn = "normalize_case_like" /\ call.done
    /\ call.reference = <<1040, 1073>>
    /\ call.text = <<1073, 45, 1040>>
    /\ call.ret = <<1041, 45, 1040>>

\* The orders in which the analyzer can enumerate the same parses: every
\* arrangement of the list.
C12_Arrangements(parses) ==
    {[n \in DOMAIN parses |-> parses[q[n]]] :
         q \in {f \in [DOMAIN parses -> DOMAIN parses] :
                    \A a, b \in DOMAIN parses : a # b => f[a] # f[b]}}

\* Arrangements that leave parses of equal score in their relative order.
C12_TiesKept(parses) ==
    {[n \in DOMAIN parses |-> parses[q[n]]] :
         q \in {f \in [DOMAIN parses -> DOMAIN parses] :
                    /\ \A a, b \in DOMAIN parses : a # b => f[a] # f[b]
                    /\ \A a, b \in DOMAIN parses :
                           (a < b /\ parses[f[a]].score = parses[f[b]].score)
                               => f[a] < f[b]}}

\* The same paradigms with their forms enumerated in another order.
C12_Reordered(parses, how) ==
    [n \in DOMAIN parses |->
        [parses[n] EXCEPT !.lexeme =
            IF how = "reversed"
            THEN [m \in DOMAIN @ |-> @[Len(@) + 1 - m]]
            ELSE IF how = "rotated" /\ @ # <<>>
            THEN Tail(@) \o <<Head(@)>>
            ELSE @]]

C12_Rows(parses, target_parses) ==
    IF source_parse_fails(parses) THEN None
    ELSE generate_forms(parses, call.source_lemma, call.target_lemma,
                        call.target_is_known, target_parses, call.pick)

\* C12 as stated: the rows of generate are the same for every order in
\* which the analyzer enumerates the parses, parses of equal score
\* included, and the forms within a paradigm.
C12_OrderIndependent ==
    (call.fn = "generate" /\ call.done) =>
        \A parses \in C12_Arrangements(call.parses) :
            \A how \in {"same", "reversed", "rotated"} :
                call.ret = C12_Rows(C12_Reordered(parses, how),
                                    C12_Reordered(call.all_target_parses, how))

\* C12, amended: the rows of generate are determined by its arguments and
\* the analyzer's answers; they are the same for every order of the forms
\* within the source and target paradigms and for every order of the
\* source parses that leaves parses of equal score in their relative order.
C12_Deterministic ==
    (call.fn = "generate" /\ call.done) =>
        \A parses \in C12_TiesKept(call.parses) :
            \A how \in {"same", "reversed", "rotated"} :
                call.ret = C12_Rows(C12_Reordered(parses, how),
                                    C12_Reordered(call.all_target_parses, how))

C12_Witness ==
    /\ call.fn = "generate" /\ call.done
    /\ Len(call.parses) = 2 /\ call.parses[1].score < call.parses[2].score
    /\ Len(call.parses[1].lexeme) = 3
    /\ call.all_target_parses # <<>>
    /\ call.ret # None /\ Len(call.ret) >= 3
    /\ call.ret = C12_Rows(<<call.parses[2], call.parses[1]>>, call.all_target_parses)

\* r before or equal to q in the order of (source, tag, target).
C15_KeyLe(r, q) ==
    \/ text_lt(r.source, q.source)
    \/ r.source = q.source /\ text_lt(r.tag, q.tag)
    \/ r.source = q.source /\ r.tag = q.tag /\ text_lt(r.target, q.target)
    \/ r.source = q.source /\ r.tag = q.tag /\ r.target = q.target

\* C15: the rows generate returns hold no (source, target, tag) triple
\* twice and are in non-decreasing order of (source, tag, target).
C15_SortedWithoutDuplicates ==
    (call.fn = "generate" /\ call.done /\ call.ret # None) =>
        /\ \A a, b \in DOMAIN call.ret :
               (/\ call.ret[a].source = call.ret[b].source
                /\ call.ret[a].target = call.ret[b].target
                /\ call.ret[a].tag = call.ret[b].tag) => a = b
        /\ \A a \in 1..(Len(call.ret) - 1) : C15_KeyLe(call.ret[a], call.ret[a + 1])

\* The same form in two parses; a form whose two target spellings fall
\* together after the casing and leave one row; a form with two target
\* words and two rows.
C15_Witness ==
    /\ call.fn = "generate" /\ call.done /\ call.ret # None
    /\ Len(call.parses) = 2 /\ call.parses[1] = call.parses[2]
    /\ F_nomn_sing \in Range(call.parses[1].lexeme)
    /\ call.all_target_parses = <<TGT_VARIANTS>> /\ call.target_is_known
    /\ Cardinality({n \in DOMAIN call.ret :
                        /\ call.ret[n].source = F_nomn_sing.word
                        /\ call.ret[n].tag = str(F_nomn_sing.tag)}) = 1
    /\ \E a, b \in DOMAIN call.ret :
           /\ a < b /\ call.ret[a].source = call.ret[b].source
           /\ call.ret[a].tag = call.ret[b].tag
           /\ call.ret[a].target # call.ret[b].target

----------------------------------------------------------------------------
(* Claims about main's loop and generate.                                  *)

Listed(n) == ~falsy(pairs[n].source) /\ ~falsy(pairs[n].target)

key_of(n) == lower(strip(pairs[n].source))

aligned_of(n) == normalize_case_like(strip(pairs[n].target), strip(pairs[n].target))

AllRows == UNION {Range(results[m].forms) : m \in DOMAIN results}

IsSing(row) == contains(GRAMMEME_TEXT["sing"], row.tag)

\* C1 as stated: after the loop every pair with non-empty source s and
\* target t has the key lower(s) in the flat map, mapped to t, whatever the
\* other pairs and the generated rows are.
C1_OwnTargetAlways ==
    pc = "done" =>
        \A n \in DOMAIN pairs :
            Listed(n) =>
                /\ lower(pairs[n].source) \in DOMAIN replacements_flat
                /\ replacements_flat[lower(pairs[n].source)] = pairs[n].target

\* No earlier pair has the key of pair n, no row of another lemma lowercases
\* to it, and no row at all does so with a positive priority.
C1_Undisputed(n) ==
    /\ \A m \in 1..(n - 1) : Listed(m) => key_of(m) # key_of(n)
    /\ \A r \in Range(results) : \A row \in Range(r.forms) :
           lower(row.source) = key_of(n) =>
               /\ r.source_lemma = strip(pairs[n].source)
               /\ get_form_priority(row.tag) = 0

\* C1, amended: after the loop every pair with non-empty source and target
\* has the key lower(strip(s)) in the flat map; the key maps to the pair's
\* own target, trimmed and case-aligned, when the pair is the first of its
\* key and no generated row disputes it (none of another lemma, none with a
\* positive priority).
C1_SeedPresent ==
    pc = "done" =>
        \A n \in DOMAIN pairs :
            Listed(n) =>
                /\ key_of(n) \in DOMAIN replacements_flat
                /\ C1_Undisputed(n) => replacements_flat[key_of(n)] = aligned_of(n)

C1_Witness ==
    /\ pc = "done"
    /\ \E n \in DOMAIN pairs :
           /\ Listed(n) /\ C1_Undisputed(n)
           /\ replacements_flat[key_of(n)] = aligned_of(n)
           /\ \E row \in AllRows :
                  lower(row.source) = key_of(n) /\ row.target # aligned_of(n)
    /\ \E n \in DOMAIN pairs :
           /\ Listed(n) /\ C1_Undisputed(n)
           /\ strip(pairs[n].source) # pairs[n].source
           /\ replacements_flat[key_of(n)] = aligned_of(n)

\* C2: when generate returns a result, every form of the merged source
\* lexeme has at least one row in it, and once main has merged the rows the
\* lowercase of every such form is a key of the priority map and, after the
\* loop, of the flat map.
C2_EveryFormHasRow ==
    /\ gen.returned = "dict" =>
           \A n \in DOMAIN gen.full_lexeme :
               /\ \E row \in Range(Last(results).forms) :
                      /\ row.source = gen.full_lexeme[n].word
                      /\ row.tag = str(gen.full_lexeme[n].tag)
               /\ pc # "merge" =>
                      lower(gen.full_lexeme[n].word) \in DOMAIN replacements_prio_map
    /\ pc = "done" =>
           \A row \in AllRows : lower(row.source) \in DOMAIN replacements_flat

C2_Witness ==
    /\ pc = "done" /\ gen.returned = "dict"
    /\ \E n \in DOMAIN log : log[n].matching = "failed"
    /\ \E n \in DOMAIN gen.full_lexeme :
           lower(gen.full_lexeme[n].word) # gen.full_lexeme[n].word

\* C3: in every step of the loop each key of the priority map stays a key,
\* its priority does not decrease, and its entry changes only when the row
\* being merged lowercases to the key and has a strictly higher priority
\* than the stored one.
C3_NeverDowngraded ==
    [][\A k \in DOMAIN replacements_prio_map :
           /\ k \in DOMAIN replacements_prio_map'
           /\ replacements_prio_map'[k][2] >= replacements_prio_map[k][2]
           /\ replacements_prio_map'[k] # replacements_prio_map[k] =>
                  /\ pc = "merge"
                  /\ lower(Head(forms).source) = k
                  /\ get_form_priority(Head(forms).tag) > replacements_prio_map[k][2]
                  /\ replacements_prio_map'[k] =
                         <<Head(forms).target, get_form_priority(Head(forms).tag)>>]_vars

C3_Witness ==
    /\ pc = "merge"
    /\ lower(Head(forms).source) \in DOMAIN replacements_prio_map
    /\ replacements_prio_map[lower(Head(forms).source)][2] > 0
    /\ get_form_priority(Head(forms).tag)
           <= replacements_prio_map[lower(Head(forms).source)][2]
    /\ Head(forms).target # replacements_prio_map[lower(Head(forms).source)][1]

\* The case ranking of C4, highest first.
C4_Ranking == <<"nomn", "gent", "datv", "ablt", "loct", "accs", "voct", "loc2", "gen2">>

\* C4: after the loop, a key that some generated row with "sing" in its tag
\* lowercases to holds the target of such a row with a priority of at least
\* 20, whatever rows without "sing" were merged before or after it; a
\* nomn,sing tag outranks a datv,plur tag, and within one number the
\* priorities follow the case ranking.
C4_SingularWins ==
    /\ pc = "done" =>
           \A row \in AllRows :
               IsSing(row) =>
                   /\ replacements_prio_map[lower(row.source)][2] >= 20
                   /\ \E winner \in AllRows :
                          /\ IsSing(winner)
                          /\ lower(winner.source) = lower(row.source)
                          /\ replacements_flat[lower(row.source)] = winner.target
    /\ pc = "done" =>
           /\ get_form_priority(tag_text(<<"NOUN">>, <<"sing", "nomn">>))
                  > get_form_priority(tag_text(<<"NOUN">>, <<"plur", "datv">>))
           /\ get_form_priority(tag_text(<<"NOUN">>, <<"sing">>))
                  > get_form_priority(tag_text(<<"NOUN">>, <<"plur", "nomn">>))
           /\ \A number \in {"sing", "plur"} : \A a \in 1..(Len(C4_Ranking) - 1) :
                  get_form_priority(tag_text(<<"NOUN">>, <<number, C4_Ranking[a]>>))
                      > get_form_priority(tag_text(<<"NOUN">>,
                                                   <<number, C4_Ranking[a + 1]>>))

C4_Witness ==
    /\ pc = "done" /\ Len(results) = 2
    /\ \E a, b \in DOMAIN results[1].forms :
           /\ a < b
           /\ ~IsSing(results[1].forms[a]) /\ IsSing(results[1].forms[b])
           /\ lower(results[1].forms[a].source) = lower(results[1].forms[b].source)
           /\ results[1].forms[a].target # results[1].forms[b].target
    /\ \E first \in Range(results[1].forms), second \in Range(results[2].forms) :
           /\ IsSing(first) /\ ~IsSing(second)
           /\ lower(first.source) = lower(second.source)
           /\ first.target # second.target
           /\ replacements_flat[lower(first.source)] = first.target

\* C8: an entry whose source or target is missing, empty, or empty after
\* trimming is skipped entirely: generate is never called with an empty
\* lemma, no result with an empty lemma is appended, and neither map ever
\* has an empty key or an empty value.
C8_BlankEntriesSkipped ==
    /\ \A k \in DOMAIN replacements_prio_map :
           k # <<>> /\ replacements_prio_map[k][1] # <<>>
    /\ \A k \in DOMAIN replacements_flat :
           k # <<>> /\ replacements_flat[k] # <<>>
    /\ \A r \in Range(results) : r.source_lemma # <<>> /\ r.target_lemma # <<>>
    /\ gen # NoGen => gen.source_lemma # <<>> /\ gen.target_lemma # <<>>

\* What is left of the loop: the pairs not yet taken, then the phase of the
\* current pair, then the rows not yet merged.
C9_Remaining ==
    <<Len(pairs) - i,
      IF pc = "loop" THEN 2 ELSE IF pc = "merge" THEN 1 ELSE 0,
      Len(forms)>>

C9_Less(a, b) ==
    \/ a[1] < b[1]
    \/ a[1] = b[1] /\ a[2] < b[2]
    \/ a[1] = b[1] /\ a[2] = b[2] /\ a[3] < b[3]

\* C9: a step in which generate finds no parse of the source lemma appends
\* no result and leaves no rows to merge, keeps every entry of the priority
\* map, adds at most the pair's own seed of priority 0, leaves the target
\* cache alone and moves on to the next pair exactly as a generate without
\* rows does; the loop reaches the end of the list: before the end a step
\* is always possible, and every step leaves less of the loop to do.
C9_FailureIsolated ==
    /\ [][/\ (/\ pc = "loop" /\ i < Len(pairs) /\ i' = i + 1
              /\ Listed(i + 1) /\ gen'.returned = "None") =>
                 /\ results' = results /\ forms' = forms /\ pc' = "loop"
                 /\ target_cache' = target_cache /\ parse_calls' = parse_calls
                 /\ \A k \in DOMAIN replacements_prio_map :
                        /\ k \in DOMAIN replacements_prio_map'
                        /\ replacements_prio_map'[k] = replacements_prio_map[k]
                 /\ key_of(i + 1) \in DOMAIN replacements_prio_map'
                 /\ \A k \in DOMAIN replacements_prio_map'
                               \ DOMAIN replacements_prio_map :
                        /\ k = key_of(i + 1)
                        /\ replacements_prio_map'[k] = <<aligned_of(i + 1), 0>>
          /\ C9_Less(C9_Remaining', C9_Remaining)]_vars
    /\ [](pc # "done" => ENABLED Next)

C9_Witness ==
    /\ pc = "done" /\ Len(pairs) = 2 /\ Listed(1) /\ Listed(2)
    /\ Len(results) = 1 /\ gen.returned = "dict"
    /\ key_of(1) # key_of(2) \/ aligned_of(1) # aligned_of(2)

\* C10: for every form that generate resolved, the decliner was tried only
\* for a NOUN form with a target lemma unknown to the dictionary; when it
\* succeeded its word is the surface and matching was not consulted; in
\* every other case matching was tried, and when matching failed the
\* surface is the literal target lemma; every form has a surface, so no
\* failure leaves generate.
C10_StrategyOrder ==
    gen.returned = "dict" =>
        /\ DOMAIN log = DOMAIN gen.full_lexeme
        /\ \A n \in DOMAIN log :
               /\ log[n].form = gen.full_lexeme[n]
               /\ log[n].decliner # "skipped" =>
                      /\ attr(log[n].form.tag, POS_SET) = "NOUN"
                      /\ ~gen.target_is_known
               /\ log[n].decliner = "ok" =>
                      /\ log[n].matching = "skipped"
                      /\ log[n].target_words =
                             <<declined_word(log[n].form, gen.target_lemma, gen.animate)>>
               /\ log[n].decliner # "ok" => log[n].matching \in {"ok", "failed"}
               /\ log[n].matching = "failed" =>
                      log[n].target_words = <<gen.target_lemma>>
               /\ log[n].target_words # <<>>

C10_Witness ==
    /\ gen.returned = "dict"
    /\ \E n \in DOMAIN log : log[n].decliner = "failed" /\ log[n].matching = "failed"
    /\ \E n \in DOMAIN log : log[n].decliner = "skipped" /\ log[n].matching = "ok"

\* The candidates offered for a key, by position, and the earliest one of
\* the highest priority.
C13_For(k) == {n \in DOMAIN offered : offered[n].key = k}

C13_Earliest(k) ==
    CHOOSE n \in C13_For(k) :
        /\ \A m \in C13_For(k) : offered[m].prio <= offered[n].prio
        /\ \A m \in C13_For(k) : offered[m].prio = offered[n].prio => n <= m

\* C13: the keys of the priority map are the keys of the offered offered
\* so far (the seed of each pair, then its rows in sorted order, pair after
\* pair), and each key holds the value and priority of the earliest
\* candidate among those of the highest priority for the key; after the
\* loop the flat map holds that value.
C13_EarliestOfHighest ==
    /\ DOMAIN replacements_prio_map = {offered[n].key : n \in DOMAIN offered}
    /\ \A k \in DOMAIN replacements_prio_map :
           replacements_prio_map[k] =
               <<offered[C13_Earliest(k)].value, offered[C13_Earliest(k)].prio>>
    /\ pc = "done" =>
           /\ DOMAIN replacements_flat = DOMAIN replacements_prio_map
           /\ \A k \in DOMAIN replacements_flat :
                  replacements_flat[k] = offered[C13_Earliest(k)].value

C13_Witness ==
    /\ pc = "done"
    /\ \E a, b \in DOMAIN offered :
           /\ a < b /\ offered[a].key = offered[b].key
           /\ offered[a].pair = offered[b].pair
           /\ offered[a].prio = offered[b].prio
           /\ offered[a].value # offered[b].value
           /\ C13_Earliest(offered[a].key) = a
    /\ \E a, b \in DOMAIN offered :
           /\ a < b /\ offered[a].key = offered[b].key
           /\ offered[a].pair # offered[b].pair
           /\ offered[a].prio = offered[b].prio /\ offered[a].prio > 0
           /\ offered[a].value # offered[b].value
           /\ C13_Earliest(offered[a].key) = a

\* C16: matching hands no target lemma to the analyzer twice, the cache
\* holds exactly the lemmas that were parsed, an entry once written stays
\* as it is, and a generate call whose target lemma is in the cache resolves
\* its forms against the cached parses.
C16_ParsedOnce ==
    /\ [](/\ \A a, b \in DOMAIN parse_calls : parse_calls[a] = parse_calls[b] => a = b
          /\ DOMAIN target_cache = Range(parse_calls))
    /\ [][/\ \A t \in DOMAIN target_cache :
                 t \in DOMAIN target_cache' /\ target_cache'[t] = target_cache[t]
          /\ (/\ pc = "loop" /\ gen'.returned = "dict" /\ i < Len(pairs)
              /\ ~falsy(pairs[i + 1].source) /\ ~falsy(pairs[i + 1].target)
              /\ gen'.target_lemma \in DOMAIN target_cache) =>
                 /\ parse_calls' = parse_calls
                 /\ \E pick \in INFLECT_PICKS :
                        log' = [n \in DOMAIN gen'.full_lexeme |->
                                   resolve_form(gen'.full_lexeme[n], gen'.target_lemma,
                                                gen'.animate, gen'.target_is_known,
                                                target_cache[gen'.target_lemma], pick)]]_vars

\* Two pairs with the same target lemma whose forms both went to matching:
\* one call of the analyzer, one cache entry with parses in it.
C16_Witness ==
    /\ Len(results) = 2 /\ results[1].target_lemma = results[2].target_lemma
    /\ parse_calls = <<results[1].target_lemma>>
    /\ target_cache[results[1].target_lemma] # <<>>
    /\ \E n \in DOMAIN results[1].forms : results[1].forms[n].tag = str(F_adjs.tag)
    /\ gen.returned = "dict" /\ \E n \in DOMAIN log : log[n].matching = "ok"

====
